---- MODULE Spec2Model ----
(***************************************************************************)
(* Model of the mbajk model-lifecycle scripts:                             *)
(*   src/models/scripts/train_model.py    (train_model_pipeline, main)     *)
(*   src/models/scripts/predict_model.py  (predict_model_pipeline, main,   *)
(*                                         update_production_model, ...)   *)
(*   src/serve/routers/prediction.py      (predict_multiple)               *)
(*                                                                         *)
(* The MLflow model registry is the shared state: per registered model     *)
(* name a sequence of versions, each with a stage and the run that         *)
(* registered it.  Every registry call of the scripts is one step, and     *)
(* every step may raise.                                                   *)
(***************************************************************************)
EXTENDS Integers, Naturals, Sequences, FiniteSets, TLC

\* ---- bounds of the model ------------------------------------------------
MaxMains == 4           \* script invocations (train or predict main), one at a time
MaxConcMains == 3       \* script invocations when two may overlap
MaxFaults == 1          \* injected failures (I/O, registry, data) in a history
MaxMSE == 1             \* evaluation results range over 0..MaxMSE
MaxStationInput == 30   \* station_number inputs range over -1..MaxStationInput
MaxHorizonInput == 9    \* n_future inputs range over -1..MaxHorizonInput

\* ---- program constants --------------------------------------------------
MinFuture == 1
MaxFuture == 7
MinStation == 0
MaxStation == 29
MessageMaxStation == 28  \* "station_number must be between 0 and 28"
BadRequest == 400
Ok == 200
ServerError == 500

Stations == {1, 2}      \* the station folders found under data/processed
Procs == {1, 2}
Kinds == {"model", "scaler"}
MSEs == 0..MaxMSE
None == 0               \* Python None for a loaded artifact; versions are >= 1
Unset == -1             \* a local not yet assigned

VARIABLES
    registry,       \* registry[s][k]: sequence of [stage, run], index = version
    runCount,       \* runCount[s]: training runs started for s (run ids)
    mainsStarted,   \* script invocations so far
    faults,         \* failures injected so far
    pc,             \* pc[p]: position of script process p
    prog,           \* prog[p]: which script p runs ("train" / "predict")
    todo,           \* todo[p]: stations the for-loop of main has not reached
    loc,            \* loc[p]: locals of the pipeline call in progress / last made
    cycle,          \* cycle[s]: the last completed training of s not yet evaluated
    req             \* the last request handled by predict_multiple

vars == <<registry, runCount, mainsStarted, faults, pc, prog, todo, loc, cycle, req>>

\* ---- the registry (MlflowClient) ----------------------------------------

\* Versions of a registered model that are at `stage`.
VersionsAt(reg, stage) == {v \in 1..Len(reg) : reg[v].stage = stage}

SetMax(S) == CHOOSE x \in S : \A y \in S : y <= x
SetMin(S) == CHOOSE x \in S : \A y \in S : x <= y

\* client.get_latest_versions(name, stages=[stage]): the highest version at
\* the stage, as a list of at most one element.
get_latest_versions_oldest(reg, stage) ==
    IF VersionsAt(reg, stage) = {} THEN <<>> ELSE <<SetMin(VersionsAt(reg, stage))>>

get_latest_versions(reg, stage) ==
    IF VersionsAt(reg, stage) = {} THEN <<>> ELSE <<SetMax(VersionsAt(reg, stage))>>

\* The registered model `name` exists (get_latest_versions raises otherwise).
Registered(reg) == Len(reg) > 0

\* client.create_model_version / log_model(registered_model_name=...): a new
\* version, one above the last, at stage None.
create_model_version(reg, run) == Append(reg, [stage |-> "None", run |-> run])

\* client.transition_model_version_stage(name, version, stage), with the
\* default archive_existing_versions=False: only `version` changes stage.
transition_model_version_stage_archiving(reg, version, stage) ==
    [v \in 1..Len(reg) |->
        IF v = version THEN [reg[v] EXCEPT !.stage = stage]
        ELSE IF reg[v].stage = stage THEN [reg[v] EXCEPT !.stage = "Archived"]
        ELSE reg[v]]

transition_model_version_stage(reg, version, stage) ==
    [reg EXCEPT ![version].stage = stage]


\* ---- locals of one pipeline call -----------------------------------------

NoCycle == [kind |-> "none", mv |-> 0, sv |-> 0]

\* No metrics record written.
NoReport == [station |-> 0, model |-> Unset, metrics |-> {}, mse |-> Unset]

InitLoc ==
    [station |-> 0,
     result |-> "none",             \* "running", "returned", "raised"
     activeRun |-> FALSE,           \* mlflow's active run of this process
     run_id |-> 0,
     mv |-> Unset, sv |-> Unset,    \* train: versions made by create_model_version
     production_model |-> Unset, production_scaler |-> Unset,
     model |-> Unset, scaler |-> Unset,
     mse_test |-> Unset, mse_production |-> Unset,
     new_model_version |-> Unset, new_scaler_version |-> Unset,
     called_update |-> FALSE,       \* update_production_model was entered
     transitions |-> 0,             \* stage transitions to production made
     failedAt |-> "",               \* the step that raised
     fault |-> "no",                \* what failed in get_production_model/_scaler
     cold |-> FALSE,                \* train: no production artifact at the start
     cycle |-> NoCycle,             \* predict: the training this call evaluates
     report |-> NoReport,           \* the metrics record this call wrote
     before |-> <<>>]               \* the station's registry at the start of the call

Init ==
    /\ registry = [s \in Stations |-> [k \in Kinds |-> <<>>]]
    /\ runCount = [s \in Stations |-> 0]
    /\ mainsStarted = 0
    /\ faults = 0
    /\ pc = [p \in Procs |-> "idle"]
    /\ prog = [p \in Procs |-> "none"]
    /\ todo = [p \in Procs |-> {}]
    /\ loc = [p \in Procs |-> InitLoc]
    /\ cycle = [s \in Stations |-> NoCycle]
    /\ req = [station |-> 0, n_future |-> 0, status |-> 0,
              fetched |-> FALSE, loaded |-> FALSE, saved |-> FALSE]

Terminated(p) == pc[p] \in {"idle", "exited", "aborted"}

\* No version of either artifact of station s is at production.
NoBaseline(s) ==
    /\ VersionsAt(registry[s]["model"], "Production") = {}
    /\ VersionsAt(registry[s]["scaler"], "Production") = {}

\* An exception leaves the pipeline: nothing catches it in the pipeline or in
\* main, so the script ends with the stations left in todo never reached and
\* the tracking run never ended.
Raise(p, at, l, injected) ==
    /\ faults' = IF injected THEN faults + 1 ELSE faults
    /\ pc' = [pc EXCEPT ![p] = "aborted"]
    /\ loc' = [loc EXCEPT ![p] = [l EXCEPT !.result = "raised", !.failedAt = at]]
    /\ cycle' = [cycle EXCEPT ![loc[p].station] = NoCycle]
    /\ UNCHANGED <<registry, runCount, mainsStarted, prog, todo, req>>

\* A step of the pipeline that touches only locals and the registry.
Goto(p, next, newLoc, newRegistry) ==
    /\ pc' = [pc EXCEPT ![p] = next]
    /\ loc' = [loc EXCEPT ![p] = newLoc]
    /\ registry' = newRegistry
    /\ UNCHANGED <<runCount, mainsStarted, faults, prog, todo, cycle, req>>

\* ---- main (both scripts) -------------------------------------------------

\* A script is started: station_numbers is read from the folders of
\* data/processed.
main_start(p, script, limit, folders) ==
    /\ Terminated(p)
    /\ mainsStarted < limit
    /\ mainsStarted' = mainsStarted + 1
    /\ prog' = [prog EXCEPT ![p] = script]
    /\ todo' = [todo EXCEPT ![p] = folders]
    /\ pc' = [pc EXCEPT ![p] = "loop"]
    /\ loc' = [loc EXCEPT ![p] = InitLoc]
    /\ UNCHANGED <<registry, runCount, faults, cycle, req>>

\* for station_number in station_numbers: <pipeline>(station_number)
main_call(p, s) ==
    /\ pc[p] = "loop"
    /\ s \in todo[p]
    /\ todo' = [todo EXCEPT ![p] = @ \ {s}]
    /\ pc' = [pc EXCEPT ![p] = IF prog[p] = "train" THEN "t_begin" ELSE "p_begin"]
    /\ loc' = [loc EXCEPT ![p] = [InitLoc EXCEPT !.station = s, !.result = "running"]]
    /\ UNCHANGED <<registry, runCount, mainsStarted, faults, prog, cycle, req>>

\* The loop is exhausted: main returns.
main_exit(p) ==
    /\ pc[p] = "loop"
    /\ todo[p] = {}
    /\ pc' = [pc EXCEPT ![p] = "exited"]
    /\ loc' = [loc EXCEPT ![p] = InitLoc]
    /\ UNCHANGED <<registry, runCount, mainsStarted, faults, prog, todo, cycle, req>>

\* ---- train_model_pipeline ------------------------------------------------

\* start_run, load the dataset, split, prepare, train, log the parameters.
train_begin(p) ==
    /\ pc[p] = "t_begin"
    /\ runCount' = [runCount EXCEPT ![loc[p].station] = @ + 1]
    /\ pc' = [pc EXCEPT ![p] = "t_log_model"]
    /\ loc' = [loc EXCEPT ![p].activeRun = TRUE,
                          ![p].run_id = runCount[loc[p].station] + 1,
                          ![p].cold = NoBaseline(loc[p].station),
                          ![p].before = registry[loc[p].station]]
    /\ cycle' = [cycle EXCEPT ![loc[p].station] = NoCycle]
    /\ UNCHANGED <<registry, mainsStarted, faults, prog, todo, req>>

\* log_keras_model(..., registered_model_name=...): registers a version itself.
train_log_model(p) ==
    /\ pc[p] = "t_log_model"
    /\ LET s == loc[p].station IN
       Goto(p, "t_create_mv", loc[p],
            [registry EXCEPT ![s]["model"] = create_model_version(@, loc[p].run_id)])

\* mv = client.create_model_version(name, source, run_id)
train_create_mv(p) ==
    /\ pc[p] = "t_create_mv"
    /\ LET s == loc[p].station
           reg == create_model_version(registry[s]["model"], loc[p].run_id) IN
       Goto(p, "t_stage_mv", [loc[p] EXCEPT !.mv = Len(reg)],
            [registry EXCEPT ![s]["model"] = reg])

\* client.transition_model_version_stage(name, mv.version, "staging")
train_stage_mv(p) ==
    /\ pc[p] = "t_stage_mv"
    /\ LET s == loc[p].station IN
       Goto(p, "t_log_scaler", loc[p],
            [registry EXCEPT ![s]["model"] =
                transition_model_version_stage(@, loc[p].mv, "Staging")])

\* log_sklearn_model(..., registered_model_name=... + "_scaler")
train_log_scaler(p) ==
    /\ pc[p] = "t_log_scaler"
    /\ LET s == loc[p].station IN
       Goto(p, "t_create_sv", loc[p],
            [registry EXCEPT ![s]["scaler"] = create_model_version(@, loc[p].run_id)])

\* sv = client.create_model_version(name + "_scaler", source, run_id)
train_create_sv(p) ==
    /\ pc[p] = "t_create_sv"
    /\ LET s == loc[p].station
           reg == create_model_version(registry[s]["scaler"], loc[p].run_id) IN
       Goto(p, "t_stage_sv", [loc[p] EXCEPT !.sv = Len(reg)],
            [registry EXCEPT ![s]["scaler"] = reg])

\* client.transition_model_version_stage(name + "_scaler", sv.version,
\* "staging"); print; mlflow.end_run(); return to main's loop.
train_stage_sv(p) ==
    /\ pc[p] = "t_stage_sv"
    /\ LET s == loc[p].station IN
       /\ registry' = [registry EXCEPT ![s]["scaler"] =
                          transition_model_version_stage(@, loc[p].sv, "Staging")]
       /\ cycle' = [cycle EXCEPT ![s] =
                       [kind |-> IF loc[p].cold THEN "cold" ELSE "warm",
                        mv |-> loc[p].mv, sv |-> loc[p].sv]]
    /\ pc' = [pc EXCEPT ![p] = "loop"]
    /\ loc' = [loc EXCEPT ![p].result = "returned", ![p].activeRun = FALSE]
    /\ UNCHANGED <<runCount, mainsStarted, faults, prog, todo, req>>

TrainSteps == {"t_begin", "t_log_model", "t_create_mv", "t_stage_mv",
               "t_log_scaler", "t_create_sv", "t_stage_sv"}

\* Any step of train_model_pipeline raises (dataset missing, registry or
\* artifact-store failure).  In the first step either start_run itself fails
\* (no run is active) or a later call does (the run stays active).
train_raise(p) ==
    /\ pc[p] \in TrainSteps
    /\ \E active \in BOOLEAN :
          /\ pc[p] # "t_begin" => active
          /\ faults < MaxFaults
          /\ Raise(p, pc[p], [loc[p] EXCEPT !.activeRun = active], TRUE)

train_model_pipeline(p) ==
    \/ train_begin(p)
    \/ train_log_model(p)
    \/ train_create_mv(p)
    \/ train_stage_mv(p)
    \/ train_log_scaler(p)
    \/ train_create_sv(p)
    \/ train_stage_sv(p)
    \/ train_raise(p)


\* ---- predict_model.py: registry lookups ----------------------------------

\* What can fail in a lookup-and-load call: the registry call, or the load of
\* the artifact when the lookup found a version to load.
Failures(reg, stage) ==
    IF faults < MaxFaults
    THEN {"no", "registry"} \cup (IF VersionsAt(reg, stage) # {} THEN {"load"} ELSE {})
    ELSE {"no"}

Raised == -2                            \* the call raised instead of returning

\* get_production_model: the latest production version's model, None when
\* the [0] on an empty list raises IndexError; any other exception (the
\* registry call, a name the registry does not know, the artifact load)
\* propagates.
get_production_model_catch_all(fail, reg) ==
    IF fail = "registry" \/ ~Registered(reg) THEN None
    ELSE IF get_latest_versions(reg, "Production") = <<>> THEN None
    ELSE IF fail = "load" THEN None
    ELSE get_latest_versions(reg, "Production")[1]

get_production_model(fail, reg) ==
    IF fail = "registry" \/ ~Registered(reg) THEN Raised
    ELSE IF get_latest_versions(reg, "Production") = <<>> THEN None
    ELSE IF fail = "load" THEN Raised
    ELSE get_latest_versions(reg, "Production")[1]

\* get_production_scaler: the same for the "_scaler" name.
get_production_scaler(fail, reg) ==
    IF fail = "registry" \/ ~Registered(reg) THEN Raised
    ELSE IF get_latest_versions(reg, "Production") = <<>> THEN None
    ELSE IF fail = "load" THEN Raised
    ELSE get_latest_versions(reg, "Production")[1]

\* get_latest_model_version: the latest staging version's model; the
\* IndexError of an empty list is not caught here.
get_latest_model_version(fail, reg) ==
    IF fail = "registry" \/ ~Registered(reg) THEN Raised
    ELSE IF get_latest_versions(reg, "Staging") = <<>> THEN Raised
    ELSE IF fail = "load" THEN Raised
    ELSE get_latest_versions(reg, "Staging")[1]

\* get_latest_scaler_version: the same for the "_scaler" name.
get_latest_scaler_version(fail, reg) ==
    IF fail = "registry" \/ ~Registered(reg) THEN Raised
    ELSE IF get_latest_versions(reg, "Staging") = <<>> THEN Raised
    ELSE IF fail = "load" THEN Raised
    ELSE get_latest_versions(reg, "Staging")[1]

\* update_production_model's own queries:
\* client.get_latest_versions(name, stages=["staging"])[0].version
new_version(fail, reg) ==
    IF fail = "registry" \/ ~Registered(reg) THEN Raised
    ELSE IF get_latest_versions(reg, "Staging") = <<>> THEN Raised
    ELSE get_latest_versions(reg, "Staging")[1]

\* if production_model is None or production_scaler is None:
no_production(production_model, production_scaler) ==
    production_model = None \/ production_scaler = None

\* if mse_test < mse_production:
performs_better_or_equal(mse_test, mse_production) == mse_test <= mse_production

performs_better_reversed(mse_test, mse_production) == mse_test > mse_production

performs_better(mse_test, mse_production) == mse_test < mse_production


\* ---- predict_model_pipeline ----------------------------------------------

\* mlflow.start_run(...); dataset = load_bike_station_dataset(..., "test")
predict_begin(p) ==
    /\ pc[p] = "p_begin"
    /\ pc' = [pc EXCEPT ![p] = "p_get_production_model"]
    /\ loc' = [loc EXCEPT ![p].activeRun = TRUE,
                          ![p].cycle = cycle[loc[p].station],
                          ![p].before = registry[loc[p].station]]
    /\ cycle' = [cycle EXCEPT ![loc[p].station] = NoCycle]
    /\ UNCHANGED <<registry, runCount, mainsStarted, faults, prog, todo, req>>

\* production_model = get_production_model(station_number)
predict_get_production_model(p) ==
    /\ pc[p] = "p_get_production_model"
    /\ LET reg == registry[loc[p].station]["model"] IN
       \E fail \in Failures(reg, "Production") :
          LET r == get_production_model(fail, reg)
              l == [loc[p] EXCEPT !.fault = IF fail = "no" THEN @ ELSE fail] IN
          IF r = Raised
          THEN Raise(p, pc[p], l, fail # "no")
          ELSE Goto(p, "p_get_production_scaler",
                    [l EXCEPT !.production_model = r], registry)

\* production_scaler = get_production_scaler(station_number)
predict_get_production_scaler(p) ==
    /\ pc[p] = "p_get_production_scaler"
    /\ LET reg == registry[loc[p].station]["scaler"] IN
       \E fail \in Failures(reg, "Production") :
          LET r == get_production_scaler(fail, reg)
              l == [loc[p] EXCEPT !.fault = IF fail = "no" THEN @ ELSE fail] IN
          IF r = Raised
          THEN Raise(p, pc[p], l, fail # "no")
          ELSE Goto(p, "p_get_latest_model",
                    [l EXCEPT !.production_scaler = r], registry)

\* model = get_latest_model_version(station_number)
predict_get_latest_model(p) ==
    /\ pc[p] = "p_get_latest_model"
    /\ LET reg == registry[loc[p].station]["model"] IN
       \E fail \in Failures(reg, "Staging") :
          LET r == get_latest_model_version(fail, reg) IN
          IF r = Raised
          THEN Raise(p, pc[p], loc[p], fail # "no")
          ELSE Goto(p, "p_get_latest_scaler", [loc[p] EXCEPT !.model = r], registry)

\* scaler = get_latest_scaler_version(station_number)
predict_get_latest_scaler(p) ==
    /\ pc[p] = "p_get_latest_scaler"
    /\ LET reg == registry[loc[p].station]["scaler"] IN
       \E fail \in Failures(reg, "Staging") :
          LET r == get_latest_scaler_version(fail, reg) IN
          IF r = Raised
          THEN Raise(p, pc[p], loc[p], fail # "no")
          ELSE Goto(p, "p_evaluate", [loc[p] EXCEPT !.scaler = r], registry)

\* Split, prepare X_test/y_test, evaluate the candidate and log its metrics;
\* then the promotion decision: without a production model or scaler promote
\* at once, otherwise evaluate the production model on the same X_test, y_test
\* and promote when the candidate's MSE is lower.  The MSEs are what the
\* evaluation of the data yields: any values.
predict_evaluate(p) ==
    /\ pc[p] = "p_evaluate"
    /\ \E mt \in MSEs, mp \in MSEs :
          IF no_production(loc[p].production_model, loc[p].production_scaler)
          THEN Goto(p, "u_query_model",
                    [loc[p] EXCEPT !.mse_test = mt, !.called_update = TRUE], registry)
          ELSE IF performs_better(mt, mp)
          THEN Goto(p, "u_query_model",
                    [loc[p] EXCEPT !.mse_test = mt, !.mse_production = mp,
                                   !.called_update = TRUE], registry)
          ELSE Goto(p, "p_report",
                    [loc[p] EXCEPT !.mse_test = mt, !.mse_production = mp], registry)

\* update_production_model: new_model_version = ...[0].version
update_query_model(p) ==
    /\ pc[p] = "u_query_model"
    /\ \E fail \in Failures(<<>>, "Staging") :
          LET r == new_version(fail, registry[loc[p].station]["model"]) IN
          IF r = Raised
          THEN Raise(p, pc[p], loc[p], fail # "no")
          ELSE Goto(p, "u_query_scaler", [loc[p] EXCEPT !.new_model_version = r], registry)

\* update_production_model: new_scaler_version = ...[0].version
update_query_scaler(p) ==
    /\ pc[p] = "u_query_scaler"
    /\ \E fail \in Failures(<<>>, "Staging") :
          LET r == new_version(fail, registry[loc[p].station]["scaler"]) IN
          IF r = Raised
          THEN Raise(p, pc[p], loc[p], fail # "no")
          ELSE Goto(p, "u_transition_model",
                    [loc[p] EXCEPT !.new_scaler_version = r], registry)

\* client.transition_model_version_stage(name, new_model_version, "production")
update_transition_model(p) ==
    /\ pc[p] = "u_transition_model"
    /\ LET s == loc[p].station IN
       Goto(p, "u_transition_scaler", [loc[p] EXCEPT !.transitions = @ + 1],
            [registry EXCEPT ![s]["model"] =
                transition_model_version_stage(@, loc[p].new_model_version, "Production")])

\* client.transition_model_version_stage(name + "_scaler", new_scaler_version,
\* "production"); print; return to predict_model_pipeline.
update_transition_scaler(p) ==
    /\ pc[p] = "u_transition_scaler"
    /\ LET s == loc[p].station IN
       Goto(p, "p_report", [loc[p] EXCEPT !.transitions = @ + 1],
            [registry EXCEPT ![s]["scaler"] =
                transition_model_version_stage(@, loc[p].new_scaler_version, "Production")])

\* write_metrics_to_file(f"reports/station_{station_number}/metrics.txt",
\* model.name, mse_test, mae_test, evs_test): the record of the candidate,
\* written on both branches of the promotion decision.
metrics_record_if_promoted(l) ==
    IF l.called_update
    THEN [station |-> l.station, model |-> l.model,
          metrics |-> {"MSE", "MAE", "EVS"}, mse |-> l.mse_test]
    ELSE NoReport

metrics_record(l) ==
    [station |-> l.station, model |-> l.model,
     metrics |-> {"MSE", "MAE", "EVS"}, mse |-> l.mse_test]

\* write_metrics_to_file(...); print; mlflow.end_run(); return to main's loop.
predict_report(p) ==
    /\ pc[p] = "p_report"
    /\ pc' = [pc EXCEPT ![p] = "loop"]
    /\ loc' = [loc EXCEPT ![p].result = "returned", ![p].activeRun = FALSE,
                          ![p].report = metrics_record(loc[p])]
    /\ UNCHANGED <<registry, runCount, mainsStarted, faults, prog, todo, cycle, req>>

\* The steps of predict_model_pipeline whose failure is not already part of
\* the lookup outcomes above: start_run or the dataset load, the evaluation,
\* a stage transition, the metrics file.
predict_raise(p) ==
    /\ pc[p] \in {"p_begin", "p_evaluate", "u_transition_model",
                  "u_transition_scaler", "p_report"}
    /\ \E active \in BOOLEAN :
          /\ pc[p] # "p_begin" => active
          /\ faults < MaxFaults
          /\ Raise(p, pc[p], [loc[p] EXCEPT !.activeRun = active], TRUE)

update_production_model(p) ==
    \/ update_query_model(p)
    \/ update_query_scaler(p)
    \/ update_transition_model(p)
    \/ update_transition_scaler(p)

predict_model_pipeline(p) ==
    \/ predict_begin(p)
    \/ predict_get_production_model(p)
    \/ predict_get_production_scaler(p)
    \/ predict_get_latest_model(p)
    \/ predict_get_latest_scaler(p)
    \/ predict_evaluate(p)
    \/ update_production_model(p)
    \/ predict_report(p)
    \/ predict_raise(p)

main(p, limit, folders) ==
    \/ \E script \in {"train", "predict"} : main_start(p, script, limit, folders)
    \/ \E s \in Stations : main_call(p, s)
    \/ main_exit(p)

\* ---- serve/routers/prediction.py -----------------------------------------

StationInputs == -1..MaxStationInput
HorizonInputs == -1..MaxHorizonInput

\* The three checks at the head of predict_multiple: the status of the
\* HTTPException raised, or 0 when the request passes them.
validate_to_eight(station_number, n_future) ==
    IF n_future < MinFuture THEN BadRequest
    ELSE IF n_future > MaxFuture + 1 THEN BadRequest
    ELSE IF station_number < MinStation \/ station_number > MaxStation THEN BadRequest
    ELSE 0

validate(station_number, n_future) ==
    IF n_future < MinFuture THEN BadRequest
    ELSE IF n_future > MaxFuture THEN BadRequest
    ELSE IF station_number < MinStation \/ station_number > MaxStation THEN BadRequest
    ELSE 0

\* GET /mbajk/predict/{station_number}/{n_future}.  After the checks: fetch
\* the station's history, load the model and predict, save the predictions,
\* return them; a service call that raises ends the request there.
predict_multiple(station_number, n_future) ==
    /\ \E outcome \in {"fetch_raises", "predict_raises", "save_raises", "returns"} :
          req' = IF validate(station_number, n_future) # 0
                 THEN [station |-> station_number, n_future |-> n_future,
                       status |-> validate(station_number, n_future),
                       fetched |-> FALSE, loaded |-> FALSE, saved |-> FALSE]
                 ELSE [station |-> station_number, n_future |-> n_future,
                       status |-> IF outcome = "returns" THEN Ok ELSE ServerError,
                       fetched |-> TRUE,
                       loaded |-> outcome # "fetch_raises",
                       saved |-> outcome \in {"save_raises", "returns"}]
    /\ UNCHANGED <<registry, runCount, mainsStarted, faults, pc, prog, todo, loc, cycle>>

\* ---- specifications ------------------------------------------------------

\* One script runs at a time (the scripts as the pipeline runs them).
Next ==
    \/ main(1, MaxMains, Stations)
    \/ train_model_pipeline(1)
    \/ predict_model_pipeline(1)

Spec == Init /\ [][Next]_vars


\* Two script invocations overlap (nothing in the scripts or in main keeps a
\* second invocation from starting while one runs); data/processed holds one
\* station folder.
NextConc ==
    \E p \in Procs :
        \/ main(p, MaxConcMains, {1})
        \/ train_model_pipeline(p)
        \/ predict_model_pipeline(p)

SpecConc == Init /\ [][NextConc]_vars

\* The serving endpoint, request after request.
NextServe ==
    \E station_number \in StationInputs, n_future \in HorizonInputs :
        predict_multiple(station_number, n_future)

SpecServe == Init /\ [][NextServe]_vars


\* ---- the claims ----------------------------------------------------------

\* predict_model_pipeline has returned to main's loop in process p.
PredictReturned(p) ==
    prog[p] = "predict" /\ pc[p] = "loop" /\ loc[p].result = "returned"

\* The promotion decision of the call in progress (or just returned) was made
\* with a production model and a production scaler loaded.
DecidedWithBaseline(p) ==
    /\ prog[p] = "predict"
    /\ loc[p].mse_test # Unset
    /\ loc[p].production_model > None
    /\ loc[p].production_scaler > None

\* C1: cold start.  When a training of a station that had no production model
\* and no production scaler has completed and the evaluation that follows it
\* has completed too, the versions that training staged (the newest staging
\* versions, the ones the evaluation loaded) are both at production, and no
\* production MSE was computed.
C1_ColdStartPromotesNewest ==
    \A p \in Procs :
        (PredictReturned(p) /\ loc[p].cycle.kind = "cold") =>
            LET s == loc[p].station IN
            /\ loc[p].model = loc[p].cycle.mv
            /\ loc[p].scaler = loc[p].cycle.sv
            /\ registry[s]["model"][loc[p].cycle.mv].stage = "Production"
            /\ registry[s]["scaler"][loc[p].cycle.sv].stage = "Production"
            /\ loc[p].mse_production = Unset

\* C1 witness: a cold-start cycle has completed for a station that holds an
\* older staging version besides the one just promoted.
C1_Witness ==
    \E p \in Procs :
        /\ PredictReturned(p)
        /\ loc[p].cycle.kind = "cold"
        /\ loc[p].transitions = 2
        /\ VersionsAt(registry[loc[p].station]["model"], "Staging") # {}

\* C2: with a production model and scaler loaded, update_production_model is
\* called if and only if the candidate's MSE is strictly lower than the
\* production MSE; both MSEs come from the one evaluation step on the same
\* X_test, y_test.
C2_PromoteIffStrictlyLower ==
    \A p \in Procs :
        DecidedWithBaseline(p) =>
            /\ loc[p].mse_production # Unset
            /\ loc[p].called_update <=> (loc[p].mse_test < loc[p].mse_production)

\* C2 witness: a tie, and the call returned without promoting.
C2_Witness ==
    \E p \in Procs :
        /\ PredictReturned(p)
        /\ DecidedWithBaseline(p)
        /\ loc[p].mse_test = loc[p].mse_production
        /\ ~loc[p].called_update

\* C3: outside the moment between the two stage transitions of
\* update_production_model, no model version is at production while the scaler
\* version of the same run is at staging, nor the other way round.
C3_PairAtomic ==
    \A s \in Stations :
        \A m \in 1..Len(registry[s]["model"]), c \in 1..Len(registry[s]["scaler"]) :
            (/\ registry[s]["model"][m].run = registry[s]["scaler"][c].run
             /\ \A p \in Procs : pc[p] # "u_transition_scaler") =>
                /\ ~(registry[s]["model"][m].stage = "Production"
                     /\ registry[s]["scaler"][c].stage = "Staging")
                /\ ~(registry[s]["model"][m].stage = "Staging"
                     /\ registry[s]["scaler"][c].stage = "Production")

\* C4: when no script is running, at most one version of each registered
\* name is at production.
C4_OneProductionVersion ==
    (\A p \in Procs : Terminated(p)) =>
        \A s \in Stations, k \in Kinds :
            Cardinality(VersionsAt(registry[s][k], "Production")) <= 1

\* C5: the model version and the scaler version that update_production_model
\* has moved to production were registered by the same training run.
C5_PromotedPairSameRun ==
    \A p \in Procs :
        (prog[p] = "predict" /\ loc[p].transitions = 2) =>
            registry[loc[p].station]["model"][loc[p].new_model_version].run
                = registry[loc[p].station]["scaler"][loc[p].new_scaler_version].run

\* C6: a script that has ended, by returning or by an exception, has run its
\* pipeline for every station.
C6_FailureIsolated ==
    \A p \in Procs : pc[p] \in {"exited", "aborted"} => todo[p] = {}

\* C7: a production lookup yields None only when no version is at production,
\* and a failed registry call or artifact load in get_production_model or
\* get_production_scaler ends the cycle with an exception, before
\* update_production_model and with no stage transition.
C7_FailureIsNotMissingBaseline ==
    \A p \in Procs :
        prog[p] = "predict" =>
            LET s == loc[p].station IN
            /\ (loc[p].production_model = None /\ loc[p].transitions = 0) =>
                   VersionsAt(registry[s]["model"], "Production") = {}
            /\ (loc[p].production_scaler = None /\ loc[p].transitions = 0) =>
                   VersionsAt(registry[s]["scaler"], "Production") = {}
            /\ loc[p].fault # "no" =>
                   /\ pc[p] = "aborted"
                   /\ loc[p].result = "raised"
                   /\ ~loc[p].called_update
                   /\ loc[p].transitions = 0
                   /\ registry[s] = loc[p].before

\* C7 witness: the production lookup failed for a station that has a
\* production version, and the cycle ended with the exception.
C7_Witness ==
    \E p \in Procs :
        /\ prog[p] = "predict"
        /\ loc[p].fault # "no"
        /\ pc[p] = "aborted"
        /\ VersionsAt(registry[loc[p].station]["model"], "Production") # {}

\* C8: two overlapping cycles of one station never both find no production
\* model and no production scaler and both complete the promotion.
C8_NoDoubleColdStart ==
    \A p \in Procs, q \in Procs :
        (p # q /\ prog[p] = "predict" /\ prog[q] = "predict"
              /\ loc[p].station = loc[q].station) =>
            ~(/\ loc[p].production_model = None /\ loc[p].production_scaler = None
              /\ loc[q].production_model = None /\ loc[q].production_scaler = None
              /\ loc[p].transitions = 2
              /\ loc[q].transitions = 2)

\* C9: a request with n_future below 1 or above 7 is answered 400; n_future 7
\* with a station in 0..28 passes the checks; a request answered 400 fetched
\* no history, loaded no model and saved no prediction.
C9_HorizonValidated ==
    req.status # 0 =>
        /\ (req.n_future < 1 \/ req.n_future > 7) => req.status = 400
        /\ (req.n_future = 7 /\ req.station \in 0..28) =>
               (req.status # 400 /\ req.fetched)
        /\ req.status = 400 => (~req.fetched /\ ~req.loaded /\ ~req.saved)

\* C9 witness: horizon 8 for a valid station was rejected.
C9_Witness ==
    /\ req.n_future = 8
    /\ req.station \in 0..28
    /\ req.status = 400
    /\ ~req.fetched

\* C10: a call that decided with a production model and scaler loaded and a
\* candidate MSE not strictly lower leaves the station's registry as it was
\* when the call began: the production versions at production, the candidate
\* versions at staging.
C10_HoldLeavesRegistry ==
    \A p \in Procs :
        (DecidedWithBaseline(p) /\ ~(loc[p].mse_test < loc[p].mse_production)) =>
            LET s == loc[p].station IN
            /\ registry[s] = loc[p].before
            /\ registry[s]["model"][loc[p].production_model].stage = "Production"
            /\ registry[s]["scaler"][loc[p].production_scaler].stage = "Production"
            /\ registry[s]["model"][loc[p].model].stage = "Staging"
            /\ registry[s]["scaler"][loc[p].scaler].stage = "Staging"

\* C10 witness: a call with a higher candidate MSE has returned.
C10_Witness ==
    \E p \in Procs :
        /\ PredictReturned(p)
        /\ DecidedWithBaseline(p)
        /\ loc[p].mse_test > loc[p].mse_production


\* train_model_pipeline has returned to main's loop in process p.
TrainReturned(p) ==
    prog[p] = "train" /\ pc[p] = "loop" /\ loc[p].result = "returned"

\* C11: a completed train_model_pipeline has added versions to both names of
\* the station, its mv and sv are new and at staging, and every version that
\* existed when it began has the stage and run it had then.
C11_TrainingOnlyAdds ==
    \A p \in Procs :
        TrainReturned(p) =>
            LET s == loc[p].station
                b == loc[p].before IN
            /\ \A k \in Kinds :
                  /\ Len(registry[s][k]) > Len(b[k])
                  /\ SubSeq(registry[s][k], 1, Len(b[k])) = b[k]
            /\ loc[p].mv > Len(b["model"])
            /\ loc[p].sv > Len(b["scaler"])
            /\ registry[s]["model"][loc[p].mv].stage = "Staging"
            /\ registry[s]["scaler"][loc[p].sv].stage = "Staging"

\* C11 witness: a training has completed for a station that had a production
\* model and an older staging model when it began.
C11_Witness ==
    \E p \in Procs :
        /\ TrainReturned(p)
        /\ VersionsAt(loc[p].before["model"], "Production") # {}
        /\ VersionsAt(loc[p].before["model"], "Staging") # {}


\* C12 as stated: every pipeline call that has completed, training or
\* evaluation, wrote a metrics record of its station with a model identifier
\* and the three metrics.
C12_EveryCycleReports ==
    \A p \in Procs :
        (TrainReturned(p) \/ PredictReturned(p)) =>
            /\ loc[p].report.station = loc[p].station
            /\ loc[p].report.model # Unset
            /\ loc[p].report.metrics = {"MSE", "MAE", "EVS"}

\* C12 amended: every predict_model_pipeline call that has completed wrote
\* one record of its station with the candidate's identifier, the three
\* metrics and the candidate's MSE, promoted or not; a completed
\* train_model_pipeline call wrote none.
C12_EvaluationReports ==
    \A p \in Procs :
        /\ PredictReturned(p) =>
              /\ loc[p].report.station = loc[p].station
              /\ loc[p].report.model = loc[p].model
              /\ loc[p].report.metrics = {"MSE", "MAE", "EVS"}
              /\ loc[p].report.mse = loc[p].mse_test
        /\ TrainReturned(p) => loc[p].report = NoReport

\* C12 witness: an evaluation that did not promote has completed and wrote
\* its record.
C12_Witness ==
    \E p \in Procs :
        /\ PredictReturned(p)
        /\ ~loc[p].called_update
        /\ loc[p].report # NoReport


\* C13: a request whose n_future passes is answered 400 exactly when its
\* station_number lies outside the range the rejection message names, 0 to 28.
C13_StationRangeAsMessage ==
    (req.status # 0 /\ req.n_future >= MinFuture /\ req.n_future <= MaxFuture) =>
        (req.status = BadRequest <=>
            ~(req.station >= MinStation /\ req.station <= MessageMaxStation))


\* C14: when a pipeline call has returned or raised (the script is back in
\* main's loop or has ended), no tracking run is active in that process.
C14_RunAlwaysEnded ==
    \A p \in Procs : pc[p] \in {"loop", "exited", "aborted"} => ~loc[p].activeRun

\* C15: once update_production_model has made both transitions, the latest
\* production version of the model name is the model version it promoted and
\* the latest production version of the scaler name is the scaler version it
\* promoted (stated for the histories in which no call has failed).
C15_LatestProductionIsPromoted ==
    \A p \in Procs :
        (prog[p] = "predict" /\ loc[p].transitions = 2 /\ faults = 0) =>
            LET s == loc[p].station IN
            /\ get_latest_versions(registry[s]["model"], "Production")
                   = <<loc[p].new_model_version>>
            /\ get_latest_versions(registry[s]["scaler"], "Production")
                   = <<loc[p].new_scaler_version>>

\* C16: the versions update_production_model has moved to production are the
\* staging versions the call loaded and evaluated.
C16_PromotedIsEvaluated ==
    \A p \in Procs :
        (prog[p] = "predict" /\ loc[p].transitions = 2) =>
            /\ loc[p].new_model_version = loc[p].model
            /\ loc[p].new_scaler_version = loc[p].scaler

====
